---- MODULE Spec2Model ----
(***************************************************************************)
(* The content repository of src/lib/server/services/content.ts: the      *)
(* relations content and content_to_tags, the mutation operations of the  *)
(* two call paths (ContentService.addContent / updateContent, and         *)
(* create_content / update_content / update_content_tags /                *)
(* delete_content), the aggregate assembler getContentById and the filter *)
(* queries getFilteredContent / getFilteredContentCount.                  *)
(*                                                                         *)
(* Text columns that no operation branches on (title, slug, description,  *)
(* body, rendered_body, metadata, updated_at) are carried verbatim by the *)
(* code and are not part of the state.                                    *)
(***************************************************************************)
EXTENDS Integers, Sequences, FiniteSets, TLC

VARIABLES content, content_to_tags, nextId, clock, ret, rd, wr

vars == <<content, content_to_tags, nextId, clock, ret, rd, wr>>

(***************************************************************************)
(* Bounds of the model.                                                    *)
(***************************************************************************)
MaxContent == 2   \* content rows ever created
MaxTag == 2       \* rows of the tags relation
MaxOps == 3       \* mutation calls in one behaviour (also the clock's range)
MaxList == 2      \* length of a list argument (tags, children, slugs)
MaxWrites == 1    \* mutation calls of the concurrent writer

ContentIds == 1..MaxContent
TagIds == 1..MaxTag
\* an identifier that is the id of no tag
NoSuchTag == MaxTag + 1
\* an identifier that is never the id of a content row
NoSuchContent == MaxContent + 1

\* SQL NULL in the published_at column; timestamps are 1, 2, ...
NULL == 0

Statuses == {"draft", "published", "archived"}
Types == {"article", "collection"}

\* the tags relation: id -> slug (slug is unique); no operation of the file writes it
SlugNames == <<"a", "b", "c", "d">>
tags == [t \in TagIds |-> SlugNames[t]]

Range(s) == {s[i] : i \in DOMAIN s}

\* sequences over S of length at most n
RECURSIVE SeqsUpTo(_, _)
SeqsUpTo(S, n) ==
  IF n = 0 THEN {<<>>}
  ELSE LET shorter == SeqsUpTo(S, n - 1)
       IN shorter \cup {Append(s, x) : s \in {t \in shorter : Len(t) = n - 1}, x \in S}

\* an optional argument of a call: undefined, or a value
Undefined == [def |-> FALSE]
Def(v) == [def |-> TRUE, v |-> v]

(***************************************************************************)
(* The store: content (id -> row) and content_to_tags, a set of pairs     *)
(* (content_id, tag_id): the pair is unique (ON CONFLICT in               *)
(* update_content_tags), and no statement of the file orders its rows.    *)
(***************************************************************************)
Db == [content |-> content, ctt |-> content_to_tags]

\* the children column: SQL NULL, or the JSON text of a list of identifiers
SqlNull == [null |-> TRUE]
JSON_stringify(list) == [null |-> FALSE, text |-> list]
JSON_parse(column) == column.text
IsString(column) == ~column.null

\* SELECT ct.tag_id FROM content_to_tags ct WHERE ct.content_id = @content_id
TagIdsOf(ctt, id) == {r[2] : r \in {x \in ctt : x[1] = id}}

\* INSERT INTO content_to_tags (content_id, tag_id) VALUES (?, ?)
\* the pair is unique: a second insert of it raises
InsertTag(db, id, tag) ==
  IF <<id, tag>> \in db.ctt
  THEN [threw |-> TRUE, db |-> db]
  ELSE [threw |-> FALSE, db |-> [db EXCEPT !.ctt = @ \cup {<<id, tag>>}]]

\* for (const tag of data.tags) insertTagStmt.run(id, tag): every statement
\* commits on its own, the first one that raises ends the loop
RECURSIVE InsertTags(_, _, _)
InsertTags(db, id, tagList) ==
  IF tagList = <<>> THEN [threw |-> FALSE, db |-> db]
  ELSE LET r == InsertTag(db, id, Head(tagList))
       IN IF r.threw THEN r ELSE InsertTags(r.db, id, Tail(tagList))

\* DELETE FROM content_to_tags WHERE content_id = ?
DeleteTags(db, id) ==
  [db EXCEPT !.ctt = {r \in @ : r[1] # id}]

(***************************************************************************)
(* ContentService.addContent / updateContent                               *)
(***************************************************************************)
\* published_at of the inserted row
AddPublishedAt(status, now) == IF status = "published" THEN now ELSE NULL

\* INSERT INTO content (...) VALUES (...): the children column is not listed
InsertContentStmt(db, id, data, now) ==
  [db EXCEPT !.content = (id :> [status |-> data.status,
                                 type |-> data.type,
                                 published_at |-> AddPublishedAt(data.status, now),
                                 children |-> SqlNull]) @@ @]

\* the CASE expression of the UPDATE: status is the row's value before the update
UpdatePublishedAt(old, status, now) ==
  CASE old.status # "published" /\ status = "published" -> now
    [] old.status = "published" /\ status # "published" -> NULL
    [] OTHER -> old.published_at

\* UPDATE content SET ... WHERE id = ?
UpdateContentStmt(db, id, data, now) ==
  IF id \notin DOMAIN db.content THEN db
  ELSE [db EXCEPT !.content[id] =
          [@ EXCEPT !.status = data.status,
                    !.type = data.type,
                    !.published_at = UpdatePublishedAt(db.content[id], data.status, now)]]

\* the whole of addContent: [threw, value, db]
addContent(db, id, data, now) ==
  LET d1 == InsertContentStmt(db, id, data, now)
      r == IF Len(data.tags) > 0 THEN InsertTags(d1, id, data.tags)
           ELSE [threw |-> FALSE, db |-> d1]
  IN [threw |-> r.threw, value |-> IF r.threw THEN NULL ELSE id, db |-> r.db]

\* the whole of updateContent: [threw, db]
updateContent(db, id, data, now) ==
  LET d1 == UpdateContentStmt(db, id, data, now)
      d2 == DeleteTags(d1, id)
  IN IF Len(data.tags) > 0 THEN InsertTags(d2, id, data.tags)
     ELSE [threw |-> FALSE, db |-> d2]

(***************************************************************************)
(* create_content / update_content / update_content_tags / delete_content  *)
(***************************************************************************)
\* a remove_tags that deletes nothing
RemoveTagsNone(db, contentId, tagList) == db

\* DELETE FROM content_to_tags WHERE content_id = @contentId AND tag_id NOT IN (...)
RemoveTags(db, contentId, tagList) ==
  [db EXCEPT !.ctt = {r \in @ : ~(r[1] = contentId /\ r[2] \notin Range(tagList))}]

\* INSERT INTO content_to_tags SELECT @contentId, tags.id FROM tags
\*   WHERE tags.id IN (...) ON CONFLICT DO NOTHING
UpsertTags(db, contentId, tagList) ==
  [db EXCEPT !.ctt =
     @ \cup {<<contentId, t>> : t \in {x \in DOMAIN tags : x \in Range(tagList)}}]

update_content_tags(db, contentId, tagList) ==
  UpsertTags(RemoveTags(db, contentId, tagList), contentId, tagList)

\* status = Status.DRAFT when the input leaves it out
CreateStatus(input) == IF input.status.def THEN input.status.v ELSE "draft"

\* children ? JSON.stringify(children) : null  (an empty array is truthy)
ChildrenColumn(input) ==
  IF input.children.def THEN JSON_stringify(input.children.v) ELSE SqlNull

\* tags ?? []
TagsOrEmpty(input) == IF input.tags.def THEN input.tags.v ELSE <<>>

\* INSERT INTO content (title, type, status, ..., children, created_at, updated_at):
\* published_at is not listed and takes the column's default
CreateContentStmt(db, id, input) ==
  [db EXCEPT !.content = (id :> [status |-> CreateStatus(input),
                                 type |-> input.type,
                                 published_at |-> NULL,
                                 children |-> ChildrenColumn(input)]) @@ @]

\* UPDATE content SET title, type, status, ..., children, updated_at WHERE id = @id:
\* published_at is not assigned
UpdateStmt(db, id, input) ==
  IF id \notin DOMAIN db.content THEN db
  ELSE [db EXCEPT !.content[id] =
          [@ EXCEPT !.status = input.status.v,
                    !.type = input.type,
                    !.children = ChildrenColumn(input)]]

\* the whole of create_content: [value, db]
create_content(db, id, input) ==
  LET d1 == CreateContentStmt(db, id, input)
  IN [value |-> id, db |-> update_content_tags(d1, id, TagsOrEmpty(input))]

\* the whole of update_content: [value, db]; value is result.changes > 0
update_content(db, id, input) ==
  LET d1 == UpdateStmt(db, id, input)
  IN [value |-> id \in DOMAIN db.content,
      db |-> update_content_tags(d1, id, TagsOrEmpty(input))]

\* the referential policy of content_to_tags.content_id is set by the schema,
\* which is not part of the file: no enforcement, ON DELETE CASCADE, or a
\* constraint that refuses the delete while association rows exist
FkPolicies == {"off", "cascade", "restrict"}

\* DELETE FROM content without its WHERE clause
delete_contentNoWhere(db, id, policy) ==
  IF db.content = <<>> THEN [value |-> FALSE, db |-> db]
  ELSE [value |-> TRUE,
        db |-> [content |-> <<>>, ctt |-> IF policy = "off" THEN db.ctt ELSE {}]]

\* the whole of delete_content: [value, db]
delete_content(db, id, policy) ==
  LET hasRow == id \in DOMAIN db.content
      hasTags == \E r \in db.ctt : r[1] = id
      rest == [i \in DOMAIN db.content \ {id} |-> db.content[i]]
  IN IF ~hasRow THEN [value |-> FALSE, db |-> db]
     ELSE IF policy = "restrict" /\ hasTags THEN [value |-> FALSE, db |-> db]
     ELSE [value |-> TRUE,
           db |-> [content |-> rest,
                   ctt |-> IF policy = "cascade" THEN DeleteTags(db, id).ctt
                           ELSE db.ctt]]

(***************************************************************************)
(* ContentService.getContentById: the reads of one transaction, over the  *)
(* store state db that the transaction sees.                              *)
(***************************************************************************)
\* a query without its WHERE clause: the first row of the table
SelectContentAny(db, id) ==
  IF DOMAIN db.content # {}
  THEN [found |-> TRUE, row |-> db.content[CHOOSE i \in DOMAIN db.content : TRUE]]
  ELSE [found |-> FALSE]

\* SELECT * FROM content WHERE id = ?
SelectContent(db, id) ==
  IF id \in DOMAIN db.content
  THEN [found |-> TRUE, row |-> db.content[id]]
  ELSE [found |-> FALSE]

\* the join without its WHERE clause: the tags of every content item
SelectTagsOfAll(db, id) ==
  {[id |-> t, slug |-> tags[t]] :
     t \in {x \in DOMAIN tags : \E r \in db.ctt : r[2] = x}}

\* SELECT t.* FROM tags t JOIN content_to_tags ctt ON t.id = ctt.tag_id
\*   WHERE ctt.content_id = ?   (no ORDER BY: the rows, in no order)
SelectTags(db, id) ==
  {[id |-> t, slug |-> tags[t]] :
     t \in {x \in DOMAIN tags : \E r \in db.ctt : r[1] = id /\ r[2] = x}}

\* the children field of an aggregate: the stored column as it was read, or
\* a list of child aggregates
Column(c) == [kind |-> "column", column |-> c]
List(l) == [kind |-> "list", list |-> l]

Aggregate(id, row, tagList, children) ==
  [id |-> id, status |-> row.status, type |-> row.type,
   published_at |-> row.published_at, tags |-> tagList, children |-> children]

\* one pass of the loop over childrenIds: a child whose row is found is
\* appended with its own tags and children = [], the others are skipped
ChildStep(db, acc, childId) ==
  LET c == SelectContent(db, childId)
  IN IF c.found
     THEN Append(acc, Aggregate(childId, c.row, SelectTags(db, childId), List(<<>>)))
     ELSE acc

RECURSIVE ChildrenFrom(_, _, _)
ChildrenFrom(db, acc, childrenIds) ==
  IF childrenIds = <<>> THEN acc
  ELSE ChildrenFrom(db, ChildStep(db, acc, Head(childrenIds)), Tail(childrenIds))

\* content.children after the collection branch
ResolveChildren(db, row) ==
  IF row.type = "collection" /\ IsString(row.children)
  THEN LET childrenIds == JSON_parse(row.children)
       IN IF Len(childrenIds) > 0
          THEN List(ChildrenFrom(db, <<>>, childrenIds))
          ELSE Column(row.children)
  ELSE Column(row.children)

\* the whole of getContentById on one store state: null, or the aggregate
NotFound == [found |-> FALSE]

getContentById(db, id) ==
  LET c == SelectContent(db, id)
  IN IF ~c.found THEN NotFound
     ELSE [found |-> TRUE,
           value |-> Aggregate(id, c.row, SelectTags(db, id), ResolveChildren(db, c.row))]

(***************************************************************************)
(* Calls.  A mutation call takes the current time and advances the clock; *)
(* ret records the last call that returned: its arguments, its outcome    *)
(* and the store it started from.                                         *)
(***************************************************************************)
Now == clock + 1

Idle == [pc |-> "idle"]

\* no call has returned a value that the caller has yet to take
NoCall == [op |-> "none"]

Init ==
  /\ content = <<>>
  /\ content_to_tags = {}
  /\ nextId = 1
  /\ clock = 0
  /\ ret = NoCall
  /\ rd = Idle
  /\ wr = Idle

Returns(op, id, arg, threw, value, db) ==
  /\ content' = db.content
  /\ content_to_tags' = db.ctt
  /\ ret' = [op |-> op, id |-> id, arg |-> arg, threw |-> threw,
             value |-> value, pre |-> Db]

\* addContent(data), data drawn from D; the id is fresh
Call_addContent(D) ==
  \E data \in D :
    /\ ret = NoCall
    /\ clock < MaxOps
    /\ nextId <= MaxContent
    /\ LET r == addContent(Db, nextId, data, Now)
       IN Returns("addContent", nextId, data, r.threw, r.value, r.db)
    /\ nextId' = nextId + 1
    /\ clock' = clock + 1
    /\ UNCHANGED <<rd, wr>>

\* updateContent(id, data) for the id of a row
Call_updateContent(D) ==
  \E id \in DOMAIN content, data \in D :
    /\ ret = NoCall
    /\ clock < MaxOps
    /\ LET r == updateContent(Db, id, data, Now)
       IN Returns("updateContent", id, data, r.threw, NULL, r.db)
    /\ clock' = clock + 1
    /\ UNCHANGED <<nextId, rd, wr>>

\* create_content(input), input drawn from D; the id is lastInsertRowid
Call_create_content(D) ==
  \E input \in D :
    /\ ret = NoCall
    /\ clock < MaxOps
    /\ nextId <= MaxContent
    /\ LET r == create_content(Db, nextId, input)
       IN Returns("create_content", nextId, input, FALSE, r.value, r.db)
    /\ nextId' = nextId + 1
    /\ clock' = clock + 1
    /\ UNCHANGED <<rd, wr>>

\* update_content(input) for the id of a row
Call_update_content(D) ==
  \E id \in DOMAIN content, input \in {d \in D : d.status.def} :
    /\ ret = NoCall
    /\ clock < MaxOps
    /\ LET r == update_content(Db, id, input)
       IN Returns("update_content", id, input, FALSE, r.value, r.db)
    /\ clock' = clock + 1
    /\ UNCHANGED <<nextId, rd, wr>>

\* delete_content(id) for the id of a row, under one of the schema's policies
Call_delete_contentUnder(P) ==
  \E id \in DOMAIN content, policy \in P :
    /\ ret = NoCall
    /\ clock < MaxOps
    /\ LET r == delete_content(Db, id, policy)
       IN Returns("delete_content", id, policy, FALSE, r.value, r.db)
    /\ clock' = clock + 1
    /\ UNCHANGED <<nextId, rd, wr>>

Call_delete_content == Call_delete_contentUnder(FkPolicies)

\* the caller takes the value the last call returned
Return ==
  /\ ret # NoCall
  /\ ret' = NoCall
  /\ UNCHANGED <<content, content_to_tags, nextId, clock, rd, wr>>

(***************************************************************************)
(* Spec: the publication state.  Calls of both mutation paths with every  *)
(* status; the other arguments are kept small.                            *)
(***************************************************************************)
PubData == [status : Statuses, type : {"article"}, tags : {<<>>, <<1>>}]

PubInputs ==
  [status : {Undefined} \cup {Def(s) : s \in Statuses}, type : {"article"},
   children : {Undefined}, tags : {Undefined, Def(<<1>>)}]

Next ==
  \/ Call_addContent(PubData)
  \/ Call_updateContent(PubData)
  \/ Call_create_content(PubInputs)
  \/ Call_update_content(PubInputs)
  \/ Call_delete_content
  \/ Return

Spec == Init /\ [][Next]_vars

\* C1: every content row has published_at non-null if and only if its
\* status is 'published', after any sequence of create and update calls on
\* either mutation path
PublishedAtIffPublished ==
  \A id \in DOMAIN content :
    (content[id].published_at # NULL) <=> (content[id].status = "published")

\* the status an update call asked for
NewStatus == IF ret.op = "updateContent" THEN ret.arg.status ELSE ret.arg.status.v

\* C2: an update of an existing row sets published_at to the update time when
\* the status becomes 'published', clears it when the status leaves
\* 'published', and keeps its prior value otherwise
UpdateRecomputesPublishedAt ==
  (ret.op \in {"updateContent", "update_content"} /\ ret.id \in DOMAIN ret.pre.content)
    => LET old == ret.pre.content[ret.id]
           new == content[ret.id]
       IN /\ (old.status # "published" /\ NewStatus = "published")
               => (new.published_at = clock /\ new.published_at # NULL)
          /\ (old.status = "published" /\ NewStatus # "published")
               => new.published_at = NULL
          /\ ((old.status = "published") <=> (NewStatus = "published"))
               => new.published_at = old.published_at

(***************************************************************************)
(* getContentById as a call: a read, the store is left as it is.          *)
(***************************************************************************)
Call_getContentById ==
  \E id \in ContentIds \cup {NoSuchContent} :
    /\ ret = NoCall
    /\ ret' = [op |-> "getContentById", id |-> id, arg |-> NULL, threw |-> FALSE,
               value |-> getContentById(Db, id), pre |-> Db]
    /\ UNCHANGED <<content, content_to_tags, nextId, clock, rd, wr>>

(***************************************************************************)
(* SpecTags: the tag associations.  Calls of both mutation paths with     *)
(* every tag list (on the create_content path also with an id that is no  *)
(* tag's), and the assembler.                                             *)
(***************************************************************************)
TagData == [status : {"draft"}, type : {"article"}, tags : SeqsUpTo(TagIds, MaxList)]

TagInputs ==
  [status : {Def("draft")}, type : {"article"}, children : {Undefined},
   tags : {Undefined} \cup {Def(l) : l \in SeqsUpTo(TagIds \cup {NoSuchTag}, MaxList)}]

NextTags ==
  \/ Call_addContent(TagData)
  \/ Call_updateContent(TagData)
  \/ Call_create_content(TagInputs)
  \/ Call_update_content(TagInputs)
  \/ Call_delete_content
  \/ Call_getContentById
  \/ Return

SpecTags == Init /\ [][NextTags]_vars

\* the tag list an update call supplied
NewTags == IF ret.op = "updateContent" THEN ret.arg.tags ELSE TagsOrEmpty(ret.arg)

\* the association rows of the content items other than id
OtherRows(ctt, id) == {r \in ctt : r[1] # id}

UpdateCompleted == ret.op \in {"updateContent", "update_content"} /\ ~ret.threw

\* C3 as stated: after an update of C with any supplied tag list the
\* association pairs of C are exactly the supplied ones, and the pairs of
\* every other content item are unchanged
TagsReplacedByAnyList ==
  UpdateCompleted
    => /\ TagIdsOf(content_to_tags, ret.id) = Range(NewTags)
       /\ OtherRows(content_to_tags, ret.id) = OtherRows(ret.pre.ctt, ret.id)

\* C3 (amended): after an update of C that supplied ids of existing tags
\* (New, possibly empty) the association pairs of C are exactly New, and the
\* pairs of every other content item are unchanged
TagsReplacedExactly ==
  (UpdateCompleted /\ Range(NewTags) \subseteq DOMAIN tags)
    => /\ TagIdsOf(content_to_tags, ret.id) = Range(NewTags)
       /\ OtherRows(content_to_tags, ret.id) = OtherRows(ret.pre.ctt, ret.id)

\* an update_content that removed one tag of C, added another and kept a
\* third content item's pairs
TagsReplacedWitness ==
  /\ ret.op = "update_content"
  /\ Range(NewTags) \subseteq DOMAIN tags
  /\ TagIdsOf(ret.pre.ctt, ret.id) \ Range(NewTags) # {}
  /\ Range(NewTags) \ TagIdsOf(ret.pre.ctt, ret.id) # {}
  /\ OtherRows(content_to_tags, ret.id) # {}

\* the tag records associated with content id through content_to_tags
TagRecordsOf(id) ==
  {[id |-> t, slug |-> tags[t]] : t \in TagIdsOf(content_to_tags, id) \cap DOMAIN tags}

\* C6: for every existing content id, the tags of the aggregate that
\* getContentById returns are, as a set, exactly the tag records associated
\* with the id through content_to_tags
ResolveTagsExact ==
  (ret.op = "getContentById" /\ ret.id \in DOMAIN content)
    => /\ ret.value.found
       /\ ret.value.value.id = ret.id
       /\ ret.value.value.tags = TagRecordsOf(ret.id)

\* getContentById of an item with two tags, beside an item with other tags
ResolveTagsWitness ==
  /\ ret.op = "getContentById"
  /\ ret.id \in DOMAIN content
  /\ Cardinality(ret.value.value.tags) = 2
  /\ \E other \in DOMAIN content :
       /\ other # ret.id
       /\ TagIdsOf(content_to_tags, other) \notin {{}, TagIdsOf(content_to_tags, ret.id)}

\* C8: for an identifier that matches no content row getContentById returns
\* null without raising, and leaves content and content_to_tags as they were
ResolveMissing ==
  (ret.op = "getContentById" /\ ret.id \notin DOMAIN ret.pre.content)
    => /\ ret.value = NotFound
       /\ ~ret.threw
       /\ Db = ret.pre

\* getContentById of the id of a deleted row, in a store with rows and pairs
ResolveMissingWitness ==
  /\ ret.op = "getContentById"
  /\ ret.id \notin DOMAIN content
  /\ ret.id < nextId
  /\ ret.value = NotFound
  /\ content # <<>>
  /\ content_to_tags # {}

(***************************************************************************)
(* SpecTree: collections.  create_content / update_content with every     *)
(* children list and type, delete_content, and the assembler.             *)
(***************************************************************************)
TreeInputs ==
  [status : {Def("draft")}, type : Types,
   children : {Undefined} \cup {Def(l) : l \in SeqsUpTo(ContentIds, MaxList)},
   tags : {Undefined, Def(<<1>>)}]

NextTree ==
  \/ Call_create_content(TreeInputs)
  \/ Call_update_content(TreeInputs)
  \/ Call_delete_content
  \/ Call_getContentById
  \/ Return

SpecTree == Init /\ [][NextTree]_vars

\* the identifiers of list that are ids of content rows, in the list's order
Surviving(list) == SelectSeq(list, LAMBDA c : c \in DOMAIN content)

\* the child aggregates the claim describes for the stored list
ChildAggregates(list) ==
  [i \in 1..Len(Surviving(list)) |->
     Aggregate(Surviving(list)[i], content[Surviving(list)[i]],
               TagRecordsOf(Surviving(list)[i]), List(<<>>))]

Stmt(k) == [k |-> k, tag |-> NULL]
InsertTagStmts(tagList) == [i \in 1..Len(tagList) |-> [k |-> "InsertTag", tag |-> tagList[i]]]

\* the statements of a call, in the order the code issues them
Program(op, arg) ==
  CASE op = "addContent" -> <<Stmt("InsertContent")>> \o InsertTagStmts(arg.tags)
    [] op = "updateContent" ->
         <<Stmt("UpdateContent"), Stmt("DeleteTags")>> \o InsertTagStmts(arg.tags)
    [] op = "create_content" ->
         <<Stmt("CreateContent"), Stmt("RemoveTags"), Stmt("UpsertTags")>>
    [] op = "update_content" ->
         <<Stmt("Update"), Stmt("RemoveTags"), Stmt("UpsertTags")>>
    [] op = "delete_content" -> <<Stmt("Delete")>>

Ran(db) == [threw |-> FALSE, db |-> db]

\* one statement of the writer's call w on the store db
Exec(st, db, w) ==
  CASE st.k = "InsertContent" -> Ran(InsertContentStmt(db, w.id, w.arg, w.now))
    [] st.k = "InsertTag" -> InsertTag(db, w.id, st.tag)
    [] st.k = "UpdateContent" -> Ran(UpdateContentStmt(db, w.id, w.arg, w.now))
    [] st.k = "DeleteTags" -> Ran(DeleteTags(db, w.id))
    [] st.k = "CreateContent" -> Ran(CreateContentStmt(db, w.id, w.arg))
    [] st.k = "Update" -> Ran(UpdateStmt(db, w.id, w.arg))
    [] st.k = "RemoveTags" -> Ran(RemoveTags(db, w.id, TagsOrEmpty(w.arg)))
    [] st.k = "UpsertTags" -> Ran(UpsertTags(db, w.id, TagsOrEmpty(w.arg)))
    [] st.k = "Delete" -> Ran(delete_content(db, w.id, w.arg).db)

\* the store after the whole of the call w, started on db
WholeCall(db, w) ==
  CASE w.op = "addContent" -> addContent(db, w.id, w.arg, w.now).db
    [] w.op = "updateContent" -> updateContent(db, w.id, w.arg, w.now).db
    [] w.op = "create_content" -> create_content(db, w.id, w.arg).db
    [] w.op = "update_content" -> update_content(db, w.id, w.arg).db
    [] w.op = "delete_content" -> delete_content(db, w.id, w.arg).db

\* the writer enters a call: the first statement has not run yet
Wr_call(op, id, arg) ==
  /\ wr = Idle
  /\ clock < MaxWrites
  /\ wr' = [pc |-> "run", op |-> op, id |-> id, arg |-> arg, now |-> Now,
            todo |-> Program(op, arg), pre |-> Db]
  /\ clock' = clock + 1
  /\ UNCHANGED <<content, content_to_tags, ret, rd>>

Wr_create(D1, D2) ==
  /\ nextId <= MaxContent
  /\ \/ \E data \in D1 : Wr_call("addContent", nextId, data)
     \/ \E input \in D2 : Wr_call("create_content", nextId, input)
  /\ nextId' = nextId + 1

Wr_update(D1, D2) ==
  /\ \E id \in DOMAIN content :
       \/ \E data \in D1 : Wr_call("updateContent", id, data)
       \/ \E input \in D2 : Wr_call("update_content", id, input)
  /\ UNCHANGED nextId

Wr_delete ==
  /\ \E id \in DOMAIN content, policy \in FkPolicies : Wr_call("delete_content", id, policy)
  /\ UNCHANGED nextId

\* the writer's next statement; a statement that raises ends the call
Wr_step ==
  /\ wr.pc = "run"
  /\ LET r == Exec(Head(wr.todo), Db, wr)
     IN /\ content' = r.db.content
        /\ content_to_tags' = r.db.ctt
        /\ wr' = IF r.threw \/ Len(wr.todo) = 1 THEN Idle
                 ELSE [wr EXCEPT !.todo = Tail(@)]
  /\ UNCHANGED <<nextId, clock, ret, rd>>

\* the store a read of the open transaction sees: the state at the
\* transaction's first read, whatever has been committed since
TxnViewLive(snap, live) == live

TxnView(snap, live) == snap

\* this.db.exec('BEGIN TRANSACTION'); txn: the connection is inside a
\* transaction; raised: a statement of this call has raised
Rd_begin ==
  \E id \in ContentIds :
    /\ rd = Idle
    /\ rd' = [pc |-> "begun", id |-> id, txn |-> TRUE, raised |-> FALSE]
    /\ UNCHANGED <<content, content_to_tags, nextId, clock, ret, wr>>

\* contentQuery.get(id), the transaction's first read; without a row:
\* ROLLBACK and return null
Rd_content ==
  /\ rd.pc = "begun"
  /\ LET c == SelectContent(Db, rd.id)
         inFlight == wr.pc = "run"
         more == [snap |-> Db,
                  pre |-> IF inFlight THEN wr.pre ELSE Db,
                  post |-> IF inFlight THEN WholeCall(wr.pre, wr) ELSE Db,
                  during |-> IF inFlight /\ wr.id = rd.id THEN wr.op ELSE "none"]
     IN rd' = IF c.found
              THEN [pc |-> "tags", row |-> c.row] @@ more @@ rd
              ELSE [pc |-> "done", result |-> NotFound, txn |-> FALSE] @@ more @@ rd
  /\ UNCHANGED <<content, content_to_tags, nextId, clock, ret, wr>>

\* tagsQuery.all(id), then the test of the collection branch; liveTags is
\* what the same query returns on the store as committed by now
Rd_tags ==
  /\ rd.pc = "tags"
  /\ LET tagSet == SelectTags(TxnView(rd.snap, Db), rd.id)
         expand == /\ rd.row.type = "collection"
                   /\ IsString(rd.row.children)
                   /\ Len(JSON_parse(rd.row.children)) > 0
         more == [tags |-> tagSet, liveTags |-> SelectTags(Db, rd.id)]
     IN rd' = IF expand
              THEN [pc |-> "child", todo |-> JSON_parse(rd.row.children),
                    acc |-> <<>>] @@ more @@ rd
              ELSE [pc |-> "commit", children |-> Column(rd.row.children)] @@ more @@ rd
  /\ UNCHANGED <<content, content_to_tags, nextId, clock, ret, wr>>

\* childContentQuery.get(childId); after the last child, content.children
Rd_child ==
  /\ rd.pc = "child"
  /\ rd' = IF rd.todo = <<>>
           THEN [pc |-> "commit", children |-> List(rd.acc)] @@ rd
           ELSE LET c == SelectContent(TxnView(rd.snap, Db), Head(rd.todo))
                IN IF c.found THEN [pc |-> "childTags", child |-> c.row] @@ rd
                   ELSE [rd EXCEPT !.todo = Tail(@)]
  /\ UNCHANGED <<content, content_to_tags, nextId, clock, ret, wr>>

\* childTagsQuery.all(childId) and childrenContent.push(childContent)
Rd_childTags ==
  /\ rd.pc = "childTags"
  /\ LET childId == Head(rd.todo)
         agg == Aggregate(childId, rd.child,
                          SelectTags(TxnView(rd.snap, Db), childId), List(<<>>))
     IN rd' = [pc |-> "child", todo |-> Tail(rd.todo), acc |-> Append(rd.acc, agg)] @@ rd
  /\ UNCHANGED <<content, content_to_tags, nextId, clock, ret, wr>>

\* this.db.exec('COMMIT'); return content
Rd_commit ==
  /\ rd.pc = "commit"
  /\ rd' = [pc |-> "done", txn |-> FALSE,
            result |-> [found |-> TRUE,
                        value |-> Aggregate(rd.id, rd.row, rd.tags, rd.children)]] @@ rd
  /\ UNCHANGED <<content, content_to_tags, nextId, clock, ret, wr>>

\* the caller takes the aggregate
Rd_return ==
  /\ rd.pc = "done"
  /\ rd' = Idle
  /\ UNCHANGED <<content, content_to_tags, nextId, clock, ret, wr>>

\* the calls of the writer
ConcData == [status : {"draft", "published"}, type : {"article"}, tags : {<<1>>, <<2>>}]

ConcInputs ==
  [status : {Def("draft")}, type : {"collection"},
   children : {Def(<<1>>)}, tags : {Undefined, Def(<<2>>)}]

\* the stores the concurrent run starts from: the rows 1..k, each created by
\* one create_content call
SeedInputs ==
  [status : {Def("draft")}, type : Types,
   children : {Def(<<2, 1>>)}, tags : {Def(<<1>>)}]

RECURSIVE SeedStores(_)
SeedStores(k) ==
  IF k = 0 THEN {[content |-> <<>>, ctt |-> {}]}
  ELSE {create_content(s, k, input).db : s \in SeedStores(k - 1), input \in SeedInputs}

InitConc ==
  /\ \E k \in 0..MaxContent : \E s \in SeedStores(k) :
       /\ content = s.content
       /\ content_to_tags = s.ctt
       /\ nextId = k + 1
  /\ clock = 0
  /\ ret = NoCall
  /\ rd = Idle
  /\ wr = Idle

NextConc ==
  \/ Wr_create(ConcData, ConcInputs)
  \/ Wr_update(ConcData, ConcInputs)
  \/ Wr_delete
  \/ Wr_step
  \/ Rd_begin
  \/ Rd_content
  \/ Rd_tags
  \/ Rd_child
  \/ Rd_childTags
  \/ Rd_commit
  \/ Rd_return

SpecConc == InitConc /\ [][NextConc]_vars

\* C5: in every interleaving with the writer, the aggregate getContentById
\* returns (row, tags, children, children's tags) is the aggregate of one
\* single store state, the one the transaction's first read saw
ResolveReadsSnapshot ==
  rd.pc = "done" => rd.result = getContentById(rd.snap, rd.id)

\* a read completed although the writer had changed the tags of the row
\* between the transaction's first read and its tags query
ResolveReadsSnapshotWitness ==
  /\ rd.pc = "done"
  /\ rd.result.found
  /\ rd.liveTags # rd.tags
  /\ rd.result = getContentById(rd.snap, rd.id)

\* the row and the tags of id in the store db
RowAndTags(db, id) == [row |-> SelectContent(db, id).row, tags |-> SelectTags(db, id)]

\* C4: a reader whose transaction overlaps an update of the row it resolves
\* observes the row and the tags either as they were before the update or
\* as they are after it
UpdateAtomicForReader ==
  (/\ rd.pc = "done"
   /\ rd.result.found
   /\ rd.during \in {"updateContent", "update_content"})
    => [row |-> rd.row, tags |-> rd.tags]
         \in {RowAndTags(rd.pre, rd.id), RowAndTags(rd.post, rd.id)}

(***************************************************************************)
(* SpecQuery: the filtered list and count queries.  A query is built as   *)
(* the code builds it: conditions with placeholders pushed onto            *)
(* whereConditions / havingConditions and their values pushed onto params, *)
(* bound by position when the statement runs.  The calls drawn here give   *)
(* no sort, limit or offset, so a list result is the set of its items.     *)
(***************************************************************************)
\* a JavaScript string used as a condition: '' is falsy
Truthy(x) == x.def /\ x.v # ""

\* String.prototype.trim on a string given as its characters
RECURSIVE TrimStart(_)
TrimStart(s) == IF s # <<>> /\ Head(s) = " " THEN TrimStart(Tail(s)) ELSE s

RECURSIVE TrimEnd(_)
TrimEnd(s) == IF s # <<>> /\ s[Len(s)] = " " THEN TrimEnd(SubSeq(s, 1, Len(s) - 1)) ELSE s

trim(s) == TrimEnd(TrimStart(s))

\* filters.search?.trim()
Searched(filters) == filters.search.def /\ trim(filters.search.v) # <<>>

\* a tags filter: one slug, or an array of slugs
Slug(s) == [array |-> FALSE, v |-> s]
SlugList(l) == [array |-> TRUE, v |-> l]
Array_isArray(t) == t.array

\* if (filters.tags): an array is truthy even when empty, '' is not
TagsGiven(filters) ==
  filters.tags.def /\ (Array_isArray(filters.tags.v) \/ filters.tags.v.v # "")

\* Array.isArray(filters.tags) ? filters.tags : [filters.tags]
TagList(filters) ==
  IF Array_isArray(filters.tags.v) THEN filters.tags.v.v ELSE <<filters.tags.v.v>>

\* the values bound to placeholders: a JavaScript string, a number, and the
\* string of a content id as the search service returns it
Str(s) == [str |-> s]
Num(n) == [num |-> n]
IdStr(i) == [id |-> i]
Strs(l) == [i \in DOMAIN l |-> Str(l[i])]
IdStrs(l) == [i \in DOMAIN l |-> IdStr(l[i])]

EmptyQuery == [join |-> FALSE, where |-> <<>>, having |-> <<>>, params |-> <<>>]

\* whereConditions.push(cond); params.push(...values)
PushWhere(q, cond, values) ==
  [q EXCEPT !.where = Append(@, [k |-> cond, n |-> Len(values)]), !.params = @ \o values]

PushHaving(q, cond, values) ==
  [q EXCEPT !.having = Append(@, [k |-> cond, n |-> Len(values)]), !.params = @ \o values]

SearchStep(q, filters, contentIds) ==
  IF Searched(filters) THEN PushWhere(q, "c.id IN", IdStrs(contentIds)) ELSE q

StatusStepNoDefault(q, filters) ==
  IF filters.status # Def("all") /\ Truthy(filters.status)
  THEN PushWhere(q, "c.status = ?", <<Str(filters.status.v)>>)
  ELSE q

StatusStep(q, filters) ==
  IF filters.status # Def("all")
  THEN IF Truthy(filters.status)
       THEN PushWhere(q, "c.status = ?", <<Str(filters.status.v)>>)
       ELSE PushWhere(q, "c.status = 'published'", <<>>)
  ELSE q

TypeStep(q, filters) ==
  IF Truthy(filters.type) THEN PushWhere(q, "c.type = ?", <<Str(filters.type.v)>>) ELSE q

TagsStepAny(q, filters) ==
  IF TagsGiven(filters) /\ Len(TagList(filters)) > 0
  THEN PushWhere([q EXCEPT !.join = TRUE], "t.slug IN", Strs(TagList(filters)))
  ELSE q

TagsStep(q, filters) ==
  IF TagsGiven(filters)
  THEN LET tagList == TagList(filters)
       IN IF Len(tagList) > 0
          THEN LET q1 == PushWhere([q EXCEPT !.join = TRUE], "t.slug IN", Strs(tagList))
               IN IF Len(tagList) > 1
                  THEN PushHaving(q1, "COUNT(DISTINCT t.slug) = ?", <<Num(Len(tagList))>>)
                  ELSE q1
          ELSE q
  ELSE q

\* GROUP BY c.id and the HAVING conditions are appended only for an array
\* of more than one slug
Grouped(filters) ==
  TagsGiven(filters) /\ Array_isArray(filters.tags.v) /\ Len(filters.tags.v.v) > 1

\* the tags block placed before the type block
BuildQueryTagsFirst(filters, contentIds) ==
  TypeStep(TagsStep(StatusStep(SearchStep(EmptyQuery, filters, contentIds), filters),
                    filters), filters)

BuildQuery(filters, contentIds) ==
  TagsStep(TypeStep(StatusStep(SearchStep(EmptyQuery, filters, contentIds), filters),
                    filters), filters)

\* the statement text: conditions joined into WHERE; GROUP BY and HAVING
\* only when Grouped
Statement(q, filters) ==
  [join |-> q.join, where |-> q.where, group |-> Grouped(filters),
   having |-> IF Grouped(filters) THEN q.having ELSE <<>>]

\* stmt.all(...params): the i-th placeholder of the text takes params[i]
RECURSIVE Bind(_, _)
Bind(conds, params) ==
  IF conds = <<>> THEN <<>>
  ELSE LET c == Head(conds)
       IN <<[k |-> c.k, args |-> SubSeq(params, 1, c.n)]>>
            \o Bind(Tail(conds), SubSeq(params, c.n + 1, Len(params)))

\* FROM content c [JOIN content_to_tags ctt ON ... JOIN tags t ON ...]
From(db, join) ==
  IF join
  THEN {[id |-> p[1], slug |-> tags[p[2]]] :
          p \in {x \in db.ctt : x[1] \in DOMAIN db.content /\ x[2] \in DOMAIN tags}}
  ELSE {[id |-> id, slug |-> ""] : id \in DOMAIN db.content}

\* one bound condition of the WHERE clause on one row of the join
Passes(c, r, db) ==
  CASE c.k = "c.id IN" -> r.id \in {a.id : a \in Range(c.args)}
    [] c.k = "c.status = ?" -> db.content[r.id].status = c.args[1].str
    [] c.k = "c.status = 'published'" -> db.content[r.id].status = "published"
    [] c.k = "c.type = ?" -> db.content[r.id].type = c.args[1].str
    [] c.k = "t.slug IN" -> r.slug \in {a.str : a \in Range(c.args)}

\* SELECT DISTINCT c.id ... WHERE ... [GROUP BY c.id HAVING ...]
SelectIds(db, q, filters) ==
  LET st == Statement(q, filters)
      where == Bind(st.where, q.params)
      having == Bind(st.having, SubSeq(q.params, Len(q.params) - Len(st.having) + 1,
                                       Len(q.params)))
      rows == {r \in From(db, st.join) : \A i \in DOMAIN where : Passes(where[i], r, db)}
      ids == {r.id : r \in rows}
      slugs(id) == {r.slug : r \in {x \in rows : x.id = id}}
  IN IF st.group
     THEN {id \in ids : \A i \in DOMAIN having : Cardinality(slugs(id)) = having[i].args[1].num}
     ELSE ids

\* the ids the search service returned, when it was asked
ContentIdsOf(filters, hits) == IF Searched(filters) THEN hits ELSE <<>>

\* the whole of getFilteredContent: the aggregates of the selected ids
getFilteredContent(db, filters, hits) ==
  LET contentIds == ContentIdsOf(filters, hits)
  IN IF Searched(filters) /\ Len(contentIds) = 0 THEN {}
     ELSE LET ids == SelectIds(db, BuildQuery(filters, contentIds), filters)
          IN {getContentById(db, id).value : id \in {i \in ids : getContentById(db, i).found}}

\* the rows of the join that pass the WHERE clause
JoinedRows(db, q, filters) ==
  LET where == Bind(Statement(q, filters).where, q.params)
  IN {r \in From(db, q.join) : \A i \in DOMAIN where : Passes(where[i], r, db)}

\* COUNT(DISTINCT c.id) over a set of rows
CountDistinctIds(rows) == Cardinality({r.id : r \in rows})

\* SELECT COUNT(DISTINCT c.id) as total ... GROUP BY c.id HAVING ...: one row
\* per group that passes HAVING, holding the total of the group
GroupTotals(db, q, filters) ==
  LET st == Statement(q, filters)
      having == Bind(st.having, SubSeq(q.params, Len(q.params) - Len(st.having) + 1,
                                       Len(q.params)))
      rows == JoinedRows(db, q, filters)
      group(id) == {r \in rows : r.id = id}
      kept == {id \in {r.id : r \in rows} :
                 \A i \in DOMAIN having :
                   Cardinality({r.slug : r \in group(id)}) = having[i].args[1].num}
  IN [id \in kept |-> CountDistinctIds(group(id))]

\* COUNT(*) over the joined rows
CountTotalJoined(db, q, filters) == Cardinality(JoinedRows(db, q, filters))

\* result.total: COUNT(DISTINCT c.id), or for a grouped query COUNT(*) over
\* the rows of the grouped subquery
CountTotal(db, q, filters) ==
  IF Grouped(filters)
  THEN Cardinality(DOMAIN GroupTotals(db, q, filters))
  ELSE CountDistinctIds(JoinedRows(db, q, filters))

\* the whole of getFilteredContentCount
getFilteredContentCount(db, filters, hits) ==
  LET contentIds == ContentIdsOf(filters, hits)
  IN IF Searched(filters) /\ Len(contentIds) = 0 THEN 0
     ELSE CountTotal(db, BuildQuery(filters, contentIds), filters)

\* getFilteredContent(filters); hits is what searchService.search returns
Call_getFilteredContent(F, H) ==
  \E filters \in F, hits \in H :
    /\ ret = NoCall
    /\ Returns("getFilteredContent", NULL,
               [filters |-> filters, hits |-> ContentIdsOf(filters, hits)],
               FALSE, getFilteredContent(Db, filters, hits), Db)
    /\ UNCHANGED <<nextId, clock, rd, wr>>

Call_getFilteredContentCount(F, H) ==
  \E filters \in F, hits \in H :
    /\ ret = NoCall
    /\ Returns("getFilteredContentCount", NULL,
               [filters |-> filters, hits |-> ContentIdsOf(filters, hits)],
               FALSE, getFilteredContentCount(Db, filters, hits), Db)
    /\ UNCHANGED <<nextId, clock, rd, wr>>

\* the rows and the filters of the query runs
QueryData ==
  [status : Statuses, type : {"article"}, tags : {<<1>>, <<1, 2>>}]
    \cup [status : {"published"}, type : {"collection"}, tags : {<<1>>, <<1, 2>>}]

QueryFilters ==
  [search : {Undefined, Def(<<" ">>), Def(<<"q", " ">>)},
   status : {Undefined} \cup {Def(s) : s \in Statuses \cup {"all"}},
   type : {Undefined, Def("article")},
   tags : {Undefined, Def(Slug("b")), Def(SlugList(<<>>)), Def(SlugList(<<"b">>)),
           Def(SlugList(<<"a", "b">>)), Def(SlugList(<<"b", "b">>)),
           Def(SlugList(<<"b", "zz">>))}]

SearchHits == {<<>>, <<1>>, <<2, 1>>}

NextQuery ==
  \/ Call_addContent(QueryData)
  \/ Call_getFilteredContent(QueryFilters, SearchHits)
  \/ Call_getFilteredContentCount(QueryFilters, SearchHits)
  \/ Return

SpecQuery == Init /\ [][NextQuery]_vars

\* the ids a returned query call selected from the store
QueryCalls == {"getFilteredContent", "getFilteredContentCount"}

\* a returned query call selected exactly the ids of E
Selected(E) ==
  /\ ret.op = "getFilteredContent" => {a.id : a \in ret.value} = E
  /\ ret.op = "getFilteredContentCount" => ret.value = Cardinality(E)

\* the ids the list query selects on the store of the call with filters f
IdsOf(f) == {a.id : a \in getFilteredContent(ret.pre, f, ret.arg.hits)}

StatusSelects(status, s) ==
  IF ~status.def THEN s = "published"
  ELSE IF status.v = "all" THEN TRUE
  ELSE s = status.v

\* C9: in the list and in the count query, of the items that pass the other
\* filters, an omitted status selects those with status 'published', 'all'
\* selects every one, any other status selects exactly the items with it
StatusThreeWay ==
  ret.op \in QueryCalls =>
    Selected({id \in IdsOf([ret.arg.filters EXCEPT !.status = Def("all")]) :
                StatusSelects(ret.arg.filters.status, ret.pre.content[id].status)})

\* a list query without a status returned the published items and left out
\* an item that passes the other filters
StatusThreeWayWitness ==
  /\ ret.op = "getFilteredContent"
  /\ ~ret.arg.filters.status.def
  /\ ret.value # {}
  /\ \A a \in ret.value : a.status = "published"
  /\ \E id \in IdsOf([ret.arg.filters EXCEPT !.status = Def("all")]) :
       ret.pre.content[id].status = "draft"

\* the slugs of the tags content id is associated with
SlugsOf(db, id) == {tags[t] : t \in TagIdsOf(db.ctt, id) \cap DOMAIN tags}

\* the items that pass the other filters and carry every listed tag
WithAllTags ==
  {id \in IdsOf([ret.arg.filters EXCEPT !.tags = Undefined]) :
     Range(TagList(ret.arg.filters)) \subseteq SlugsOf(ret.pre, id)}

\* C10 as claimed: for a single slug or any list of slugs, the list and the
\* count query select exactly the items, among those passing the other
\* filters, that are associated with all the listed tags
TagsFilterAnyList ==
  (ret.op \in QueryCalls /\ ret.arg.filters.tags.def) => Selected(WithAllTags)

DistinctSlugs(l) == Cardinality(Range(l)) = Len(l)

\* C10 amended: the same for a single slug or a list of pairwise distinct
\* slugs
TagsFilterDistinctSlugs ==
  (/\ ret.op \in QueryCalls
   /\ ret.arg.filters.tags.def
   /\ DistinctSlugs(TagList(ret.arg.filters)))
    => Selected(WithAllTags)

\* a list of two distinct slugs selected an item and left out one that
\* passes the other filters and carries only one of the two tags
TagsFilterWitness ==
  /\ ret.op = "getFilteredContent"
  /\ ret.arg.filters.tags.def
  /\ Array_isArray(ret.arg.filters.tags.v)
  /\ ret.arg.filters.tags.v.v = <<"a", "b">>
  /\ ret.value # {}
  /\ \E id \in IdsOf([ret.arg.filters EXCEPT !.tags = Undefined]) :
       SlugsOf(ret.pre, id) = {"a"}
  /\ Selected(WithAllTags)

\* C11: the count query returns the number of distinct content ids the list
\* query selects on the same store with the same filters; for a tags list of
\* more than one slug that is the number of groups passing HAVING
CountMatchesList ==
  /\ ret.op = "getFilteredContentCount"
       => ret.value = Cardinality(IdsOf(ret.arg.filters))
  /\ ret.op = "getFilteredContent"
       => Cardinality({a.id : a \in ret.value})
            = getFilteredContentCount(ret.pre, ret.arg.filters, ret.arg.hits)

\* a count over a grouped query returned fewer than the joined rows: an item
\* carrying both listed tags counts once
CountMatchesListWitness ==
  /\ ret.op = "getFilteredContentCount"
  /\ Grouped(ret.arg.filters)
  /\ ret.value >= 1
  /\ ret.value = Cardinality(IdsOf(ret.arg.filters))
  /\ ret.value < CountTotalJoined(ret.pre, BuildQuery(ret.arg.filters, ret.arg.hits),
                                  ret.arg.filters)

(***************************************************************************)
(* SpecDelete: delete_content under the referential policy the design     *)
(* states for content_to_tags: association rows go with their content     *)
(* row.  The schema that declares the policy is not part of the file.     *)
(***************************************************************************)
ReferentialPolicy == "cascade"

DeleteData == [status : {"draft", "published"}, type : {"article"}, tags : {<<>>, <<1>>, <<2>>, <<1, 2>>}]

DeleteInputs ==
  [status : {Def("draft")}, type : {"article"}, children : {Undefined},
   tags : {Undefined, Def(<<2, 1>>)}]

NextDelete ==
  \/ Call_addContent(DeleteData)
  \/ Call_create_content(DeleteInputs)
  \/ Call_delete_contentUnder({ReferentialPolicy})
  \/ Return

SpecDelete == Init /\ [][NextDelete]_vars

MutationCalls ==
  {"addContent", "updateContent", "create_content", "update_content", "delete_content"}

\* C13: a store statement that fails inside a create, update or delete is
\* caught by the operation: no mutation call ends by raising to its caller
MutationFailuresCaught ==
  ret.op \in MutationCalls => ~ret.threw

(***************************************************************************)
(* SpecFault: getContentById when a statement raises.  Any statement of   *)
(* the call may raise; the outer catch rolls back and returns null, the   *)
(* inner catch around the children loop sets content.children = [] and    *)
(* lets the call go on to COMMIT.                                         *)
(***************************************************************************)
\* this.db.exec('BEGIN TRANSACTION') raises: no transaction is opened
Rd_beginThrows ==
  \E id \in ContentIds :
    /\ rd = Idle
    /\ rd' = [pc |-> "catch", id |-> id, txn |-> FALSE, raised |-> TRUE]
    /\ UNCHANGED <<content, content_to_tags, nextId, clock, ret, wr>>

\* contentQuery.get, tagsQuery.all or COMMIT raises: to the outer catch, the
\* transaction still open
Rd_throw ==
  /\ rd.pc \in {"begun", "tags", "commit"}
  /\ rd' = [pc |-> "catch", raised |-> TRUE] @@ rd
  /\ UNCHANGED <<content, content_to_tags, nextId, clock, ret, wr>>

\* childContentQuery.get or childTagsQuery.all raises: the inner catch logs,
\* sets content.children = [] and the call continues after the branch
Rd_childThrows ==
  /\ \/ rd.pc = "child" /\ rd.todo # <<>>
     \/ rd.pc = "childTags"
  /\ rd' = [pc |-> "commit", children |-> List(<<>>), raised |-> TRUE] @@ rd
  /\ UNCHANGED <<content, content_to_tags, nextId, clock, ret, wr>>

\* the outer catch: ROLLBACK, which itself raises (and is logged) when no
\* transaction is active; return null
Rd_catch ==
  /\ rd.pc = "catch"
  /\ rd' = [pc |-> "done", result |-> NotFound, txn |-> FALSE] @@ rd
  /\ UNCHANGED <<content, content_to_tags, nextId, clock, ret, wr>>

NextFault ==
  \/ Rd_begin
  \/ Rd_beginThrows
  \/ Rd_content
  \/ Rd_tags
  \/ Rd_child
  \/ Rd_childTags
  \/ Rd_commit
  \/ Rd_throw
  \/ Rd_childThrows
  \/ Rd_catch
  \/ Rd_return

SpecFault == InitConc /\ [][NextFault]_vars

\* C14: when getContentById returns, the transaction it opened is ended,
\* and a call in which a statement raised returns null
ResolveEndsTransaction ==
  rd.pc = "done" => (~rd.txn /\ (rd.raised => rd.result = NotFound))

(***************************************************************************)
(* SpecBuild: the SQL text and the parameter list the two builders        *)
(* produce.  The text is kept as its fragments and, in text order, the    *)
(* clause of each '?' placeholder.                                        *)
(***************************************************************************)
\* a JavaScript number used as a condition: 0 is falsy
TruthyNum(x) == x.def /\ x.v # 0

\* ' ORDER BY ' + the columns chosen by filters.sort
OrderBy(filters) ==
  IF filters.sort = Def("latest") THEN "ORDER BY c.published_at DESC, c.created_at DESC"
  ELSE IF filters.sort = Def("oldest") THEN "ORDER BY c.published_at ASC, c.created_at ASC"
  ELSE IF filters.sort = Def("popular") THEN "ORDER BY c.likes DESC, c.saves DESC"
  ELSE "ORDER BY c.published_at DESC, c.created_at DESC"

\* if (filters.limit) { ' LIMIT ?' ... if (filters.offset) { ' OFFSET ?' ... } }
PagingStep(q, filters) ==
  IF TruthyNum(filters.limit)
  THEN IF TruthyNum(filters.offset)
       THEN [tail |-> <<"LIMIT ?", "OFFSET ?">>,
             params |-> q.params \o <<Num(filters.limit.v), Num(filters.offset.v)>>] @@ q
       ELSE [tail |-> <<"LIMIT ?">>, params |-> q.params \o <<Num(filters.limit.v)>>] @@ q
  ELSE [tail |-> <<>>] @@ q

\* the clause of every placeholder of a list of conditions, in text order
RECURSIVE Marks(_)
Marks(conds) ==
  IF conds = <<>> THEN <<>>
  ELSE [i \in 1..Head(conds).n |-> Head(conds).k] \o Marks(Tail(conds))

Fragments(conds) == {conds[i].k : i \in DOMAIN conds}

NotBuilt == [built |-> FALSE]

\* the query text and params of getFilteredContent as handed to
\* this.db.prepare(query).all(...params)
ListQuery(filters, hits) ==
  LET contentIds == ContentIdsOf(filters, hits)
  IN IF Searched(filters) /\ Len(contentIds) = 0 THEN NotBuilt
     ELSE LET q == PagingStep(BuildQuery(filters, contentIds), filters)
              st == Statement(q, filters)
          IN [built |-> TRUE,
              fragments |-> Fragments(st.where) \cup Fragments(st.having)
                              \cup {OrderBy(filters)} \cup Range(q.tail),
              placeholders |-> Marks(st.where) \o Marks(st.having) \o q.tail,
              params |-> q.params]

\* the query text and params of getFilteredContentCount; the wrapping
\* SELECT COUNT(*) FROM (...) adds no placeholder
CountQuery(filters, hits) ==
  LET contentIds == ContentIdsOf(filters, hits)
  IN IF Searched(filters) /\ Len(contentIds) = 0 THEN NotBuilt
     ELSE LET q == BuildQuery(filters, contentIds)
              st == Statement(q, filters)
          IN [built |-> TRUE,
              fragments |-> Fragments(st.where) \cup Fragments(st.having),
              placeholders |-> Marks(st.where) \o Marks(st.having),
              params |-> q.params]

Build_getFilteredContent(F, H) ==
  \E filters \in F, hits \in H :
    /\ ret = NoCall
    /\ Returns("getFilteredContent.query", NULL,
               [filters |-> filters, hits |-> ContentIdsOf(filters, hits)],
               FALSE, ListQuery(filters, hits), Db)
    /\ UNCHANGED <<nextId, clock, rd, wr>>

Build_getFilteredContentCount(F, H) ==
  \E filters \in F, hits \in H :
    /\ ret = NoCall
    /\ Returns("getFilteredContentCount.query", NULL,
               [filters |-> filters, hits |-> ContentIdsOf(filters, hits)],
               FALSE, CountQuery(filters, hits), Db)
    /\ UNCHANGED <<nextId, clock, rd, wr>>

BuildFilters ==
  [search : {Undefined, Def(<<"q">>)},
   status : {Undefined, Def("all"), Def("draft")},
   type : {Undefined, Def("article")},
   tags : {Undefined, Def(Slug("b")), Def(SlugList(<<>>)), Def(SlugList(<<"a", "b">>))},
   sort : {Undefined, Def("popular"), Def("likes; --")},
   limit : {Undefined, Def(0), Def(10)},
   offset : {Undefined, Def(0), Def(5)}]

NextBuild ==
  \/ Build_getFilteredContent(BuildFilters, SearchHits)
  \/ Build_getFilteredContentCount(BuildFilters, SearchHits)
  \/ Return

SpecBuild == Init /\ [][NextBuild]_vars

BuildCalls == {"getFilteredContent.query", "getFilteredContentCount.query"}

\* the texts a query can be made of
SqlFragments ==
  {"c.id IN", "c.status = ?", "c.status = 'published'", "c.type = ?", "t.slug IN",
   "COUNT(DISTINCT t.slug) = ?", "LIMIT ?", "OFFSET ?",
   "ORDER BY c.published_at DESC, c.created_at DESC",
   "ORDER BY c.published_at ASC, c.created_at ASC",
   "ORDER BY c.likes DESC, c.saves DESC"}

Repeat(k, n) == [i \in 1..n |-> k]

If(c, l) == IF c THEN l ELSE <<>>

ExplicitStatus(f) == f.status.def /\ f.status.v # "all"

Paged(op, f) == op = "getFilteredContent.query" /\ TruthyNum(f.limit)

\* the clauses and the values in the order: search ids, explicit status,
\* type, tag slugs, tag count when grouped, limit, offset
ExpectedPlaceholders(op, f, hits) ==
  Repeat("c.id IN", Len(hits))
    \o If(ExplicitStatus(f), <<"c.status = ?">>)
    \o If(f.type.def, <<"c.type = ?">>)
    \o If(TagsGiven(f), Repeat("t.slug IN", Len(TagList(f))))
    \o If(Grouped(f), <<"COUNT(DISTINCT t.slug) = ?">>)
    \o If(Paged(op, f), <<"LIMIT ?">>)
    \o If(Paged(op, f) /\ TruthyNum(f.offset), <<"OFFSET ?">>)

ExpectedParams(op, f, hits) ==
  IdStrs(hits)
    \o If(ExplicitStatus(f), <<Str(f.status.v)>>)
    \o If(f.type.def, <<Str(f.type.v)>>)
    \o If(TagsGiven(f), Strs(TagList(f)))
    \o If(Grouped(f), <<Num(Len(TagList(f)))>>)
    \o If(Paged(op, f), <<Num(f.limit.v)>>)
    \o If(Paged(op, f) /\ TruthyNum(f.offset), <<Num(f.offset.v)>>)

\* C15: a built list or count query has as many params as placeholders, the
\* i-th param is the value of the clause of the i-th placeholder, in the
\* order search ids, status, type, tag slugs, tag count, limit, offset, and
\* the text is made of fixed fragments only
ParamsMatchPlaceholders ==
  (ret.op \in BuildCalls /\ ret.value.built)
    => /\ Len(ret.value.params) = Len(ret.value.placeholders)
       /\ ret.value.placeholders
            = ExpectedPlaceholders(ret.op, ret.arg.filters, ret.arg.hits)
       /\ ret.value.params = ExpectedParams(ret.op, ret.arg.filters, ret.arg.hits)
       /\ ret.value.fragments \subseteq SqlFragments

\* a list query built with every clause: search ids, status, type, two
\* slugs, the tag count, limit and offset
ParamsMatchPlaceholdersWitness ==
  /\ ret.op = "getFilteredContent.query"
  /\ ret.value.built
  /\ Len(ret.arg.hits) = 2
  /\ ExplicitStatus(ret.arg.filters)
  /\ ret.arg.filters.type.def
  /\ Grouped(ret.arg.filters)
  /\ Len(ret.value.params) = 9
  /\ ret.value.params[9] = Num(5)
  /\ ret.value.placeholders[9] = "OFFSET ?"

====
